---- MODULE Spec2Model ----
(***************************************************************************)
(* A model of src/python/FieldElement.py: the class FieldElement with its  *)
(* constructor (__init__), its textual representation (__repr__) and its   *)
(* equality (__eq__), as a state machine over a heap of instances.  Every  *)
(* action is one Python expression evaluated by a caller; op, args, attr,  *)
(* outcome, exc, msg and ret record that expression and what it produced.  *)
(***************************************************************************)
EXTENDS Integers, Sequences, FiniteSets

VARIABLES heap, op, args, attr, outcome, exc, msg, ret

vars == <<heap, op, args, attr, outcome, exc, msg, ret>>

---------------------------------------------------------------------------
(* Bounds of the model and the literals of the source.                     *)

\* the number of instances the heap may hold
MaxInstances == 2
\* integer arguments of the constructor range over -1..MaxNum, -1..MaxOrder
MaxNum == 1
MaxOrder == 1

\* a = FieldElement(7, 13); b = FieldElement(6, 13)
MainNumA == 7
MainNumB == 6
MainOrder == 13

Nums == ((-1)..MaxNum) \cup {MainNumA, MainNumB}
Orders == ((-1)..MaxOrder) \cup {MainOrder}

---------------------------------------------------------------------------
(* Python values: a type tag, an integer payload and a string payload (a   *)
(* sequence of characters).  A FieldElement value is a reference: n is the *)
(* instance's index in the heap.                                           *)

PyNone == [type |-> "NoneType", n |-> 0, s |-> <<>>]
PyInt(k) == [type |-> "int", n |-> k, s |-> <<>>]
PyStr(t) == [type |-> "str", n |-> 0, s |-> t]
PyBool(b) == [type |-> "bool", n |-> IF b THEN 1 ELSE 0, s |-> <<>>]
PyRef(i) == [type |-> "FieldElement", n |-> i, s |-> <<>>]
PyMethod(i, name) == [type |-> "method", n |-> i, s |-> <<name>>]

\* str(int): the decimal digits, most significant first, '-' for a negative
Digits == <<"0", "1", "2", "3", "4", "5", "6", "7", "8", "9">>

RECURSIVE NatStr(_)
NatStr(k) ==
    IF k < 10 THEN <<Digits[k + 1]>>
    ELSE NatStr(k \div 10) \o <<Digits[(k % 10) + 1]>>

Str(k) == IF k < 0 THEN <<"-">> \o NatStr(-k) ELSE NatStr(k)

\* str.format with positional '{}' fields: each '{}' of the template is
\* replaced by the next argument's text, every other character is copied
RECURSIVE Format(_, _)
Format(fmt, fargs) ==
    IF fmt = <<>> THEN <<>>
    ELSE IF Len(fmt) >= 2 /\ fmt[1] = "{" /\ fmt[2] = "}"
         THEN Head(fargs) \o Format(SubSeq(fmt, 3, Len(fmt)), Tail(fargs))
         ELSE <<fmt[1]>> \o Format(Tail(fmt), fargs)

---------------------------------------------------------------------------
(* FieldElement.__init__                                                   *)

\* 'Num {} not in field range 0 to {}'
ErrorTemplate ==
    <<"N", "u", "m", " ", "{", "}", " ", "n", "o", "t", " ", "i", "n", " ",
      "f", "i", "e", "l", "d", " ", "r", "a", "n", "g", "e", " ", "0", " ",
      "t", "o", " ", "{", "}">>

\* if num >= order or num < 0:
StrictUpperOutOfRange(num, order) == num > order \/ num < 0
NoLowerOutOfRange(num, order) == num >= order
OutOfRange(num, order) == num >= order \/ num < 0

\* error = 'Num {} not in field range 0 to {}'.format(num, order - 1)
ErrorMessage(num, order) == Format(ErrorTemplate, <<Str(num), Str(order - 1)>>)

\* self.num = num; self.order = order, on the fresh instance self
SharedInit(h, num, order) ==
    [i \in 1..(Len(h) + 1) |-> [num |-> num, order |-> order]]
SwappedInit(h, num, order) == Append(h, [num |-> order, order |-> num])
InitInstance(h, num, order) == Append(h, [num |-> num, order |-> order])

\* FieldElement(num, order)
Construct(num, order) ==
    /\ op' = "init"
    /\ args' = <<PyInt(num), PyInt(order)>>
    /\ attr' = ""
    /\ IF OutOfRange(num, order)
       THEN /\ outcome' = "raise"
            /\ exc' = "ValueError"
            /\ msg' = ErrorMessage(num, order)
            /\ ret' = PyNone
            /\ heap' = heap
       ELSE /\ Len(heap) < MaxInstances
            /\ heap' = InitInstance(heap, num, order)
            /\ outcome' = "return"
            /\ exc' = ""
            /\ msg' = <<>>
            /\ ret' = PyRef(Len(heap'))

---------------------------------------------------------------------------
(* FieldElement.__repr__                                                   *)

\* 'FieldElement_{}({})'
NoOrderTemplate ==
    <<"F", "i", "e", "l", "d", "E", "l", "e", "m", "e", "n", "t", "(", "{",
      "}", ")">>
ReprTemplate ==
    <<"F", "i", "e", "l", "d", "E", "l", "e", "m", "e", "n", "t", "_", "{",
      "}", "(", "{", "}", ")">>

\* 'FieldElement_{}({})'.format(self.order, self.num)
NoOrderReprText(self) == Format(NoOrderTemplate, <<Str(self.num)>>)
ReprText(self) == Format(ReprTemplate, <<Str(self.order), Str(self.num)>>)

\* repr(heap[i])
Repr(i) ==
    /\ op' = "repr"
    /\ args' = <<PyRef(i)>>
    /\ attr' = ""
    /\ outcome' = "return"
    /\ exc' = ""
    /\ msg' = <<>>
    /\ ret' = PyStr(ReprText(heap[i]))
    /\ heap' = heap

---------------------------------------------------------------------------
(* FieldElement.__eq__                                                     *)

\* the attributes an instance of each type carries: __init__ sets num and
\* order on a FieldElement; an int or a str has neither
InstanceAttrs(type) == IF type = "FieldElement" THEN {"num", "order"} ELSE {}

\* return self.num == other.num and self.order == other.order
NumOnlyEqual(self, other) == self.num = other.num
ElementsEqual(self, other) == self.num = other.num /\ self.order = other.order

\* the operands a caller may compare an element with
Others ==
    {PyNone, PyInt(MainNumA), PyStr(Str(MainNumA))}
        \cup {PyRef(j) : j \in DOMAIN heap}

\* heap[i] == other
Eq(i, other) ==
    /\ op' = "eq"
    /\ args' = <<PyRef(i), other>>
    /\ attr' = ""
    /\ msg' = <<>>
    /\ heap' = heap
    /\ IF other = PyNone
       THEN /\ outcome' = "return"
            /\ exc' = ""
            /\ ret' = PyBool(FALSE)
       ELSE IF "num" \notin InstanceAttrs(other.type)
            THEN /\ outcome' = "raise"
                 /\ exc' = "AttributeError"
                 /\ ret' = PyNone
            ELSE /\ outcome' = "return"
                 /\ exc' = ""
                 /\ ret' = PyBool(ElementsEqual(heap[i], heap[other.n]))

---------------------------------------------------------------------------
(* What the class statement defines besides the three methods.             *)

\* class FieldElement: __init__, __repr__, __eq__
ClassMethods == {"__init__", "__repr__", "__eq__"}

\* the names a caller may look up on an element
AttrNames == {"num", "order", "__repr__", "add", "__add__"}

\* heap[i].name
GetAttr(i, name) ==
    /\ op' = "getattr"
    /\ args' = <<PyRef(i)>>
    /\ attr' = name
    /\ msg' = <<>>
    /\ heap' = heap
    /\ IF name \in InstanceAttrs("FieldElement")
       THEN /\ outcome' = "return"
            /\ exc' = ""
            /\ ret' = PyInt(IF name = "num" THEN heap[i].num ELSE heap[i].order)
       ELSE IF name \in ClassMethods
            THEN /\ outcome' = "return"
                 /\ exc' = ""
                 /\ ret' = PyMethod(i, name)
            ELSE /\ outcome' = "raise"
                 /\ exc' = "AttributeError"
                 /\ ret' = PyNone

\* hash(heap[i]): a class that defines __eq__ and no __hash__ is unhashable
\* (Python 3 sets its __hash__ to None, a Python 2 classic instance is
\* refused alike) and hash() raises TypeError; without __eq__ the hash is
\* that of the object's identity.
HashResult(i) ==
    IF "__eq__" \in ClassMethods /\ "__hash__" \notin ClassMethods
    THEN [outcome |-> "raise", exc |-> "TypeError", ret |-> PyNone]
    ELSE [outcome |-> "return", exc |-> "", ret |-> PyInt(i)]

Hash(i) ==
    /\ op' = "hash"
    /\ args' = <<PyRef(i)>>
    /\ attr' = ""
    /\ msg' = <<>>
    /\ heap' = heap
    /\ outcome' = HashResult(i).outcome
    /\ exc' = HashResult(i).exc
    /\ ret' = HashResult(i).ret

---------------------------------------------------------------------------

Init ==
    /\ heap = <<>>
    /\ op = "none"
    /\ args = <<>>
    /\ attr = ""
    /\ outcome = "none"
    /\ exc = ""
    /\ msg = <<>>
    /\ ret = PyNone

Next ==
    \/ \E num \in Nums, order \in Orders : Construct(num, order)
    \/ \E i \in DOMAIN heap : Repr(i)
    \/ \E i \in DOMAIN heap, other \in Others : Eq(i, other)
    \/ \E i \in DOMAIN heap, name \in AttrNames : GetAttr(i, name)
    \/ \E i \in DOMAIN heap : Hash(i)

Spec == Init /\ [][Next]_vars

---------------------------------------------------------------------------
(* The properties of the specification, each checked under Spec.           *)

\* the arguments of the constructor call the state records
ArgNum == args[1].n
ArgOrder == args[2].n

\* C1: a construction with value < 0 or value >= order raises ValueError,
\* returns no instance and leaves the heap as it was: no element with a
\* clamped or reduced value comes to exist.
OutOfRangeConstructionFails ==
    [][(op' = "init" /\ (args'[1].n < 0 \/ args'[1].n >= args'[2].n))
          => /\ outcome' = "raise"
             /\ exc' = "ValueError"
             /\ ret' = PyNone
             /\ heap' = heap]_vars

\* a construction with value >= order >= 1 has failed while an element exists
OutOfRangeWitness ==
    /\ op = "init"
    /\ ArgNum = MainNumA
    /\ ArgOrder = 1
    /\ outcome = "raise"
    /\ Len(heap) >= 1

\* C2: a construction with 0 <= value < order returns a new element that
\* stores the given value and the given order.
ValidConstructionSucceeds ==
    [][(op' = "init" /\ 0 <= args'[1].n /\ args'[1].n < args'[2].n)
          => /\ outcome' = "return"
             /\ ret' = PyRef(Len(heap) + 1)
             /\ heap' = Append(heap, [num |-> args'[1].n, order |-> args'[2].n])]_vars

\* FieldElement(7, 13) has been constructed
ValidConstructionWitness ==
    /\ op = "init"
    /\ outcome = "return"
    /\ ret.type = "FieldElement"
    /\ heap[ret.n] = [num |-> MainNumA, order |-> MainOrder]

\* C3: every instance that exists satisfies 0 <= value < order.
RangeInvariant ==
    \A i \in DOMAIN heap : 0 <= heap[i].num /\ heap[i].num < heap[i].order

\* two elements exist and a later construction has failed
RangeInvariantWitness ==
    /\ Len(heap) >= 2
    /\ op = "init"
    /\ outcome = "raise"

\* C4: comparing two elements returns true iff their values are equal and
\* their orders are equal.
EqualityIffBothMatch ==
    (op = "eq" /\ args[2].type = "FieldElement")
        => /\ outcome = "return"
           /\ ret = PyBool(/\ heap[args[1].n].num = heap[args[2].n].num
                           /\ heap[args[1].n].order = heap[args[2].n].order)

\* FieldElement(7, 13) == FieldElement(6, 13) has returned False
EqualityWitness ==
    /\ op = "eq"
    /\ args[2].type = "FieldElement"
    /\ heap[args[1].n] = [num |-> MainNumA, order |-> MainOrder]
    /\ heap[args[2].n] = [num |-> MainNumB, order |-> MainOrder]
    /\ ret = PyBool(FALSE)

\* C5: comparing an element with a non-element (None, an int, a str)
\* returns false and raises nothing.
EqualityTotalOnNonElements ==
    (op = "eq" /\ args[2].type # "FieldElement")
        => /\ outcome = "return"
           /\ ret = PyBool(FALSE)

\* C6: no step changes the value or the order of an existing instance.
InstancesImmutable ==
    [][\A i \in DOMAIN heap : i \in DOMAIN heap' /\ heap'[i] = heap[i]]_vars

\* two distinct elements have been compared
ImmutableWitness ==
    /\ Len(heap) >= 2
    /\ op = "eq"
    /\ args[2].type = "FieldElement"
    /\ args[1] # args[2]
    /\ outcome = "return"

\* C7: every element is hashable, and elements that compare equal have the
\* same hash.
HashConsistentWithEquality ==
    op = "hash"
        => /\ outcome = "return"
           /\ \A j \in DOMAIN heap :
                 ElementsEqual(heap[args[1].n], heap[j])
                     => HashResult(j) =
                            [outcome |-> "return", exc |-> "", ret |-> ret]

\* the text 'FieldElement_p(v)' written out character by character
ExpectedRepr(p, v) ==
    <<"F", "i", "e", "l", "d", "E", "l", "e", "m", "e", "n", "t", "_">>
        \o Str(p) \o <<"(">> \o Str(v) \o <<")">>

\* C8: the representation of an element of value v and order p is the
\* string 'FieldElement_p(v)', and an element has that representation iff
\* it has the same value and the same order.
ReprExactAndInjective ==
    op = "repr"
        => /\ outcome = "return"
           /\ ret = PyStr(ExpectedRepr(heap[args[1].n].order, heap[args[1].n].num))
           /\ \A j \in DOMAIN heap :
                 (ReprText(heap[j]) = ret.s)
                     <=> (/\ heap[j].num = heap[args[1].n].num
                          /\ heap[j].order = heap[args[1].n].order)

\* the representation of an element of a two-digit order has been taken
\* while an element of the same value and another order exists
ReprWitness ==
    /\ op = "repr"
    /\ heap[args[1].n].order = MainOrder
    /\ \E j \in DOMAIN heap :
          /\ heap[j].num = heap[args[1].n].num
          /\ heap[j].order # MainOrder

\* C9: the type provides addition: looking up add on an element yields a
\* method.
AdditionProvided ==
    (op = "getattr" /\ attr = "add")
        => /\ outcome = "return"
           /\ ret.type = "method"

\* C10: a construction with order <= 0 raises ValueError whatever the
\* value, and every instance that exists has order >= 1.
OrderPositive ==
    /\ \A i \in DOMAIN heap : heap[i].order >= 1
    /\ (op = "init" /\ ArgOrder <= 0)
          => (outcome = "raise" /\ exc = "ValueError")

\* a construction with a value >= 0 and an order <= 0 has failed
OrderPositiveWitness ==
    /\ op = "init"
    /\ ArgNum >= 0
    /\ ArgOrder <= 0
    /\ outcome = "raise"

====
